---- MODULE Spec2Model ----
(***************************************************************************)
(* A model of mergesvvcf/mergedfile.py: the merge driver (merge), its      *)
(* helpers (mapped_to_chromosome, int_if_possible, make_info_dict,         *)
(* bkptRefAltFromPair, passed_variant, infoString) and the read-back       *)
(* utility readMergedCalls.                                                *)
(*                                                                         *)
(* Python strings that the code slices, parses or formats are sequences of *)
(* one-character strings (<<"G","L">> is "GL"); exception names and field    *)
(* names, which the code only compares, are TLA+ strings.                  *)
(* INFO values are tagged: [t |-> "int"|"str"|"list"|"tuple", v |-> ...].  *)
(***************************************************************************)
EXTENDS Integers, Sequences, FiniteSets, TLC

\* ------------------------------------------------------------------ bounds
MaxPos == 2
MaxMembers == 3
MaxFiles == 2
MaxRecords == 2
MaxMerged == 3

\* ------------------------------------------------------- python primitives
None == [t |-> "None"]

PyInt(n) == [t |-> "int", v |-> n]
PyStr(s) == [t |-> "str", v |-> s]
PyList(s) == [t |-> "list", v |-> s]
PyTuple(s) == [t |-> "tuple", v |-> s]

Min(a, b) == IF a < b THEN a ELSE b

\* s[0:n] of a Python string: the whole string when it is shorter than n.
Prefix(s, n) == SubSeq(s, 1, Min(n, Len(s)))

\* The characters the model's strings are made of, in code point order.
CharOrder ==
    <<"+", "-", ".", "0", "1", "2", "3", "4", "5", "6", "7", "8", "9", ":",
      "A", "B", "C", "D", "E", "G", "I", "L", "M", "N", "P", "S", "T", "U",
      "V", "X", "[", "]", "_", "c", "h", "r", "s">>

Ord(c) == CHOOSE i \in 1..Len(CharOrder) : CharOrder[i] = c

Digits == <<"0", "1", "2", "3", "4", "5", "6", "7", "8", "9">>

IsDigit(c) == \E i \in 1..10 : Digits[i] = c

DigitVal(c) == (CHOOSE i \in 1..10 : Digits[i] = c) - 1

\* str.__lt__: lexicographic on code points, a proper prefix first.
RECURSIVE StrLess(_, _)
StrLess(a, b) ==
    IF b = <<>> THEN FALSE
    ELSE IF a = <<>> THEN TRUE
    ELSE IF Head(a) # Head(b) THEN Ord(Head(a)) < Ord(Head(b))
    ELSE StrLess(Tail(a), Tail(b))

RECURSIVE DigitsVal(_, _)
DigitsVal(s, acc) ==
    IF s = <<>> THEN acc ELSE DigitsVal(Tail(s), 10 * acc + DigitVal(Head(s)))

\* Whether int(s) succeeds on a string: an optional sign, then digits only.
IntParses(s) ==
    LET body == IF s # <<>> /\ Head(s) \in {"+", "-"} THEN Tail(s) ELSE s
    IN  body # <<>> /\ \A i \in 1..Len(body) : IsDigit(body[i])

ParseInt(s) ==
    IF Head(s) = "-" THEN 0 - DigitsVal(Tail(s), 0)
    ELSE IF Head(s) = "+" THEN DigitsVal(Tail(s), 0)
    ELSE DigitsVal(s, 0)

RECURSIVE NatToStr(_)
NatToStr(n) ==
    IF n < 10 THEN <<Digits[n + 1]>>
    ELSE NatToStr(n \div 10) \o <<Digits[(n % 10) + 1]>>

\* str(n) and "%d" % n of an integer.
IntToStr(n) == IF n < 0 THEN <<"-">> \o NatToStr(0 - n) ELSE NatToStr(n)

\* str(v) of an int or a string value.
PyStrOf(val) == IF val.t = "int" THEN IntToStr(val.v) ELSE val.v

\* The elements of a sequence, and the sequence without its repeats.
Range(s) == {s[i] : i \in 1..Len(s)}

\* Every order a set can be listed in: list(set(...)) fixes none.
Orderings(S) ==
    {p \in [1..Cardinality(S) -> S] : \A x \in S : \E i \in DOMAIN p : p[i] = x}

\* ------------------------------------------------------ mapped_to_chromosome
\* Bug variant: the NC prefix is forgotten.
mapped_to_chromosome_noNC(chrom) ==
    ~(Prefix(chrom, 2) \in {<<"G", "L">>, <<"M", "T">>, <<"h", "s">>}
      \/ Prefix(chrom, 1) = <<"M">>)

mapped_to_chromosome(chrom) ==
    ~(Prefix(chrom, 2) \in {<<"G", "L">>, <<"M", "T">>, <<"h", "s">>, <<"N", "C">>}
      \/ Prefix(chrom, 1) = <<"M">>)

\* ----------------------------------------------------------- int_if_possible
\* The outcome of int_if_possible: a value, or the exception int() lets out
\* (only ValueError is caught; int() of a tuple raises TypeError).
int_if_possible(val) ==
    LET v0 == IF val.t = "list" THEN val.v[1] ELSE val
    IN  CASE v0.t = "int" -> v0
          [] v0.t = "str" -> IF IntParses(v0.v) THEN PyInt(ParseInt(v0.v)) ELSE v0
          [] OTHER -> [t |-> "raise", v |-> "TypeError"]

\* ------------------------------------------------------------ make_info_dict
Raise(exc) == [err |-> exc]

Raised(res) == res.err # "none"

FieldSet == {"CHR2", "END", "SVTYPE", "SVLEN"}

SynthTypes ==
    {PyStr(<<"D", "U", "P">>), PyStr(<<"D", "U", "P", ":", "T", "A", "N", "D", "E", "M">>),
     PyStr(<<"D", "E", "L">>), PyStr(<<"I", "N", "V">>)}

\* answers: int_if_possible of the field of every record that has it.
RECURSIVE answersOf(_, _)
answersOf(records, field) ==
    IF records = <<>> THEN <<>>
    ELSE LET rest == answersOf(Tail(records), field)
         IN  IF field \in DOMAIN Head(records).info
             THEN <<int_if_possible(Head(records).info[field])>> \o rest
             ELSE rest

\* < of two answers of the same type.
PyLess(a, b) == IF a.t = "int" THEN a.v < b.v ELSE StrLess(a.v, b.v)

\* sorted() compares an int with a str somewhere as soon as both are there.
SortRaises(answers) ==
    \E i, j \in 1..Len(answers) : answers[i].t # answers[j].t

\* Bug variant of median_pos: the lower of the two middle elements.
median_pos_lower(nanswers) == (nanswers - 1) \div 2

\* median_pos = int(nanswers / 2), a 0-based index.
median_pos(nanswers) == nanswers \div 2

median_answer(answers) ==
    SortSeq(answers, PyLess)[median_pos(Len(answers)) + 1]

\* Bug variant of make_info_dict: a median of 0 is stored like any other.
make_info_dict_keepzero(records, pos1, pos2) ==
    LET ans(f) == answersOf(records, f)
        bad(f) == (\E i \in 1..Len(ans(f)) : ans(f)[i].t = "raise") \/ SortRaises(ans(f))
        kept == {f \in FieldSet : Len(ans(f)) > 0}
        base == [f \in kept |-> median_answer(ans(f))]
        synth == /\ "SVTYPE" \in kept
                 /\ base["SVTYPE"] \in SynthTypes
                 /\ "SVLEN" \notin kept
    IN  IF \E f \in FieldSet : bad(f) THEN Raise("TypeError")
        ELSE IF ~synth THEN [err |-> "none", info |-> base]
        ELSE IF pos1.t # "int" \/ pos2.t # "int" THEN Raise("TypeError")
        ELSE [err |-> "none",
              info |-> [f \in kept \cup {"SVLEN"} |->
                          IF f = "SVLEN" THEN PyInt(pos2.v - pos1.v) ELSE base[f]]]

\* The outcome of make_info_dict: the info dictionary, or the exception that
\* leaves it (int() of a tuple, sorted() of mixed types, None - int).
make_info_dict(records, pos1, pos2) ==
    LET ans(f) == answersOf(records, f)
        bad(f) == (\E i \in 1..Len(ans(f)) : ans(f)[i].t = "raise") \/ SortRaises(ans(f))
        kept == {f \in FieldSet : Len(ans(f)) > 0 /\ median_answer(ans(f)) # PyInt(0)}
        base == [f \in kept |-> median_answer(ans(f))]
        synth == /\ "SVTYPE" \in kept
                 /\ base["SVTYPE"] \in SynthTypes
                 /\ "SVLEN" \notin kept
    IN  IF \E f \in FieldSet : bad(f) THEN Raise("TypeError")
        ELSE IF ~synth THEN [err |-> "none", info |-> base]
        ELSE IF pos1.t # "int" \/ pos2.t # "int" THEN Raise("TypeError")
        ELSE [err |-> "none",
              info |-> [f \in kept \cup {"SVLEN"} |->
                          IF f = "SVLEN" THEN PyInt(pos2.v - pos1.v) ELSE base[f]]]

\* ---------------------------------------------------------------- infoString
\* ",".join(names)
RECURSIVE Join(_)
Join(names) ==
    IF names = <<>> THEN <<>>
    ELSE IF Len(names) = 1 THEN names[1]
    ELSE names[1] \o <<",">> \o Join(Tail(names))

\* infoString (a closure of merge over output_ncallers): every INFO map it
\* can return, one per order set(callers) may be listed in.
infoString(callers, infodict, output_ncallers) ==
    LET shown == {f \in {"SVTYPE", "SVLEN"} : f \in DOMAIN infodict}
        res(f) == IF infodict[f].t = "list" THEN infodict[f].v[1] ELSE infodict[f]
        dom == shown \cup {"Callers"} \cup (IF output_ncallers THEN {"NumCallers"} ELSE {})
    IN  {[f \in dom |->
            CASE f = "Callers" -> PyStr(Join(p))
              [] f = "NumCallers" -> PyInt(Cardinality(Range(callers)))
              [] OTHER -> PyStr(PyStrOf(res(f)))] : p \in Orderings(Range(callers))}

\* -------------------------------------------------------- bkptRefAltFromPair
Location(chrom, pos, strand, right) ==
    [t |-> "Location", chrom |-> chrom, pos |-> pos, strand |-> strand, right |-> right]

\* Bug variant of bkptRefAltFromPair: the bracket direction is swapped.
bkptRefAltFromPair_swapped(loc1, loc2) ==
    LET refstr == <<"N">>
        alt_after == loc1.right = FALSE
        unknown == loc2.t = "None" \/ loc2.chrom.t = "None"
        delim == IF loc2.right THEN "]" ELSE "["
        bkptstr == IF unknown THEN <<".">>
                   ELSE <<delim>> \o loc2.chrom.v \o <<":">> \o IntToStr(loc2.pos.v) \o <<delim>>
    IN  IF ~unknown /\ loc2.strand # (loc1.right # loc2.right)
        THEN Raise("AssertionError")
        ELSE [err |-> "none", ref |-> refstr,
              alt |-> IF alt_after THEN refstr \o bkptstr ELSE bkptstr \o refstr]

\* The outcome of bkptRefAltFromPair(loc1, loc2) with the default refstr:
\* (refstr, altstr), or the AssertionError of the orientation check.
bkptRefAltFromPair(loc1, loc2) ==
    LET refstr == <<"N">>
        alt_after == loc1.right = FALSE
        unknown == loc2.t = "None" \/ loc2.chrom.t = "None"
        delim == IF loc2.right THEN "[" ELSE "]"
        bkptstr == IF unknown THEN <<".">>
                   ELSE <<delim>> \o loc2.chrom.v \o <<":">> \o IntToStr(loc2.pos.v) \o <<delim>>
    IN  IF ~unknown /\ loc2.strand # (loc1.right # loc2.right)
        THEN Raise("AssertionError")
        ELSE [err |-> "none", ref |-> refstr,
              alt |-> IF alt_after THEN refstr \o bkptstr ELSE bkptstr \o refstr]

\* =================================================================== state
VARIABLES
    \* make_info_dict and infoString applied to the members of one SV cluster
    iRecords,       \* the member records gathered so far
    iPc,            \* "build" while members are added, "done" once applied
    iArgs,          \* the other arguments of the call
    iOut,           \* the outcomes: the info dictionary and the INFO map
    \* bkptRefAltFromPair applied to a pair of locations
    bArgs,          \* <<loc1, loc2>> of the last call
    bOut,           \* its outcome
    \* readMergedCalls
    rPc,            \* "loop" in the for loop, "returned" after the return
    rArgs,          \* filterByChromosome and skipcallers
    rRead,          \* the records invcf.fetch() has yielded so far
    callerIdx,
    callIdx,
    callsets,
    callIdxToCall,
    callerIdxDict,
    \* merge
    mArgs,          \* the keyword arguments of the call
    mPc,            \* "next", "stream", "emit", "done" or "raised"
    fileIdx,        \* how many (infile, program) pairs the for loop has taken
    streamed,       \* the records fetch() has yielded, each with its fate
    swallowed,      \* the files whose exception the except clause passed over
    calldict,       \* the variantmap: its clusters in insertion order
    header,         \* outvcf.header
    todo,           \* what is left of sorted(calldict)
    out,            \* what has been printed to outfile
    failure         \* the exception that left merge, if any

infoVars == <<iRecords, iPc, iArgs, iOut>>
bkptVars == <<bArgs, bOut>>
readVars == <<rPc, rArgs, rRead, callerIdx, callIdx, callsets, callIdxToCall, callerIdxDict>>
mergeVars == <<mArgs, mPc, fileIdx, streamed, swallowed, calldict, header, todo, out, failure>>
vars == <<infoVars, bkptVars, readVars, mergeVars>>

Nothing == [t |-> "nothing"]

InfoIdle == iRecords = <<>> /\ iPc = "idle" /\ iArgs = Nothing /\ iOut = Nothing
BkptIdle == bArgs = Nothing /\ bOut = Nothing
ReadIdle ==
    /\ rPc = "idle" /\ rArgs = Nothing /\ rRead = <<>>
    /\ callerIdx = 0 /\ callIdx = 0 /\ callsets = <<>>
    /\ callIdxToCall = <<>> /\ callerIdxDict = <<>>
MergeIdle ==
    /\ mArgs = Nothing /\ mPc = "idle" /\ fileIdx = 0 /\ streamed = <<>>
    /\ swallowed = {} /\ calldict = <<>> /\ header = Nothing /\ todo = <<>>
    /\ out = <<>> /\ failure = Nothing

\* ------------------------------------------------ inputs of make_info_dict
Str1 == <<"1">>
StrX == <<"X">>
StrDEL == <<"D", "E", "L">>
StrBND == <<"B", "N", "D">>

NoInfo == [f \in {} |-> None]

\* INFO maps of member records: the mate fields alone, or the SV fields.
\* SVLEN comes as an int or as a one-element list.
MateInfos ==
    {("CHR2" :> PyStr(Str1)), ("CHR2" :> PyStr(StrX)),
     ("END" :> PyInt(10)), ("END" :> PyInt(20))}

SvlenValues == {PyInt(0), PyInt(5)}

SvInfos ==
    {("SVTYPE" :> PyStr(ty)) : ty \in {StrDEL, StrBND}}
    \cup {("SVLEN" :> len) : len \in SvlenValues \cup {PyList(<<PyInt(0)>>)}}
    \cup {("SVTYPE" :> PyStr(StrDEL)) @@ ("SVLEN" :> len) : len \in SvlenValues}
    \cup {("SVTYPE" :> PyStr(StrBND)) @@ ("SVLEN" :> PyInt(0))}

InfoPool == {NoInfo} \cup MateInfos \cup SvInfos

ProgA == <<"a">>
ProgB == <<"b">>

CallerLists == {<<ProgA, ProgA>>}

\* ------------------------------------------------ make_info_dict, applied
IAddRecord(info) ==
    /\ iPc = "build"
    /\ Len(iRecords) < MaxMembers
    /\ iRecords' = Append(iRecords, [info |-> info])
    /\ UNCHANGED <<iPc, iArgs, iOut, bkptVars, readVars, mergeVars>>

\* Line 195 of merge on one SV cluster:
\* infoString(callers, make_info_dict(records, medianPos1, medianPos2)).
IEmitInfo(callers, pos1, pos2, output_ncallers) ==
    /\ iPc = "build"
    /\ iRecords # <<>>
    /\ iPc' = "done"
    /\ iArgs' = [callers |-> callers, pos1 |-> pos1, pos2 |-> pos2,
                 output_ncallers |-> output_ncallers]
    /\ LET d == make_info_dict(iRecords, PyInt(pos1), PyInt(pos2))
       IN  IF Raised(d) THEN iOut' = [err |-> d.err]
           ELSE \E info \in infoString(callers, d.info, output_ncallers) :
                    iOut' = [err |-> "none", infodict |-> d.info, info |-> info]
    /\ UNCHANGED <<iRecords, bkptVars, readVars, mergeVars>>

InitInfo ==
    /\ iRecords = <<>> /\ iPc = "build" /\ iArgs = Nothing /\ iOut = Nothing
    /\ BkptIdle /\ ReadIdle /\ MergeIdle

NextInfo ==
    \/ \E info \in InfoPool : IAddRecord(info)
    \/ \E callers \in CallerLists, pos2 \in 0..MaxPos, n \in BOOLEAN :
           IEmitInfo(callers, 1, pos2, n)

SpecInfo == InitInfo /\ [][NextInfo]_vars

\* -------------------------------------------- bkptRefAltFromPair, applied
\* Positions of one and of two digits.
Positions == {6 * p : p \in 0..MaxPos}

Chroms == {None, PyStr(Str1), PyStr(StrX)}

Locations ==
    {Location(c, IF c = None THEN None ELSE PyInt(p), s, r) :
        c \in Chroms, p \in Positions, s \in BOOLEAN, r \in BOOLEAN}

BkptCall(loc1, loc2) ==
    /\ bArgs' = <<loc1, loc2>>
    /\ bOut' = bkptRefAltFromPair(loc1, loc2)
    /\ UNCHANGED <<infoVars, readVars, mergeVars>>

InitBkpt == InfoIdle /\ BkptIdle /\ ReadIdle /\ MergeIdle

NextBkpt == \E loc1 \in Locations, loc2 \in Locations \cup {None} : BkptCall(loc1, loc2)

SpecBkpt == InitBkpt /\ [][NextBkpt]_vars

\* ------------------------------------------------------------ readMergedCalls
StrGL == <<"G", "L", "0", "0", "0", "2", "2", "0", ".", "1">>
ProgC == <<"c">>

\* The for loop over the callers of one record (lines 226-236), from the
\* state st = [called, callerIdxDict, callerIdx, callsets, ncalledthis].
\* Bug variant: a caller listed twice is taken twice.
RECURSIVE scanCallers_nodedup(_, _, _, _)
scanCallers_nodedup(callers, st, skipcallers, cIdx) ==
    IF callers = <<>> THEN st
    ELSE LET caller == Head(callers)
             isNew == caller \notin DOMAIN st.callerIdxDict
             dict1 == IF isNew THEN st.callerIdxDict @@ (caller :> st.callerIdx)
                      ELSE st.callerIdxDict
             sets1 == IF isNew THEN Append(st.callsets, <<>>) ELSE st.callsets
         IN  IF caller \notin Range(skipcallers)
             THEN scanCallers_nodedup(Tail(callers),
                      [called |-> Append(st.called, caller),
                       callerIdxDict |-> dict1,
                       callerIdx |-> IF isNew THEN st.callerIdx + 1 ELSE st.callerIdx,
                       callsets |-> [sets1 EXCEPT ![dict1[caller] + 1] = Append(@, cIdx)],
                       ncalledthis |-> st.ncalledthis + 1],
                      skipcallers, cIdx)
             ELSE scanCallers_nodedup(Tail(callers), st, skipcallers, cIdx)

RECURSIVE scanCallers(_, _, _, _)
scanCallers(callers, st, skipcallers, cIdx) ==
    IF callers = <<>> THEN st
    ELSE LET caller == Head(callers)
             isNew == caller \notin DOMAIN st.callerIdxDict
             dict1 == IF isNew THEN st.callerIdxDict @@ (caller :> st.callerIdx)
                      ELSE st.callerIdxDict
             sets1 == IF isNew THEN Append(st.callsets, <<>>) ELSE st.callsets
         IN  IF caller \notin Range(st.called) /\ caller \notin Range(skipcallers)
             THEN scanCallers(Tail(callers),
                      [called |-> Append(st.called, caller),
                       callerIdxDict |-> dict1,
                       callerIdx |-> IF isNew THEN st.callerIdx + 1 ELSE st.callerIdx,
                       callsets |-> [sets1 EXCEPT ![dict1[caller] + 1] = Append(@, cIdx)],
                       ncalledthis |-> st.ncalledthis + 1],
                      skipcallers, cIdx)
             ELSE scanCallers(Tail(callers), st, skipcallers, cIdx)

\* [c for c in rec.info['Callers'] if not c in skipcallers]
RECURSIVE notSkipped(_, _)
notSkipped(callers, skipcallers) ==
    IF callers = <<>> THEN <<>>
    ELSE IF Head(callers) \in Range(skipcallers)
         THEN notSkipped(Tail(callers), skipcallers)
         ELSE <<Head(callers)>> \o notSkipped(Tail(callers), skipcallers)

\* skipcallers = [] when it is None
skipList == IF rArgs.skipcallers = None THEN <<>> ELSE rArgs.skipcallers.v

\* One pass of the for loop over invcf.fetch() (lines 220-243).
RReadRecord(rec) ==
    /\ rPc = "loop"
    /\ Len(rRead) < MaxMerged
    /\ rRead' = Append(rRead, rec)
    /\ IF rArgs.filterByChromosome /\ ~mapped_to_chromosome(rec.chrom)
       THEN UNCHANGED <<rPc, callerIdx, callIdx, callsets, callIdxToCall, callerIdxDict>>
       ELSE LET callers == notSkipped(rec.info["Callers"], skipList)
                st == scanCallers(callers,
                          [called |-> <<>>, callerIdxDict |-> callerIdxDict,
                           callerIdx |-> callerIdx, callsets |-> callsets,
                           ncalledthis |-> 0],
                          skipList, callIdx)
            IN  /\ callerIdxDict' = st.callerIdxDict
                /\ callerIdx' = st.callerIdx
                /\ callsets' = st.callsets
                /\ IF Len(st.called) # st.ncalledthis
                   THEN rPc' = "AssertionError" /\ UNCHANGED <<callIdx, callIdxToCall>>
                   ELSE /\ rPc' = rPc
                        /\ IF st.ncalledthis > 0
                           THEN /\ callIdxToCall' =
                                       Append(callIdxToCall,
                                              <<Len(st.called), rec.chrom, rec.pos, rec.REF,
                                                rec.alts[1], Join(st.called)>>)
                                /\ callIdx' = callIdx + 1
                           ELSE UNCHANGED <<callIdx, callIdxToCall>>
    /\ UNCHANGED <<rArgs, infoVars, bkptVars, mergeVars>>

\* The stream ends and the three results are returned (line 245).
RReturn ==
    /\ rPc = "loop"
    /\ rPc' = "returned"
    /\ UNCHANGED <<rArgs, rRead, callerIdx, callIdx, callsets, callIdxToCall,
                   callerIdxDict, infoVars, bkptVars, mergeVars>>

\* Records of a merged file: Callers tuples of one or two names, some
\* with a repeated name, on a chromosome and on an unplaced contig.
CallerTuples ==
    {<<ProgA>>, <<ProgB>>, <<ProgC>>, <<ProgA, ProgB>>, <<ProgB, ProgA>>,
     <<ProgA, ProgA>>, <<ProgC, ProgB>>}

MergedRecord(c, cs) ==
    [chrom |-> c, pos |-> 13, REF |-> <<"N">>, alts |-> <<<<"N", ".">>>>,
     info |-> ("Callers" :> cs)]

MergedRecords ==
    {MergedRecord(Str1, cs) : cs \in CallerTuples}
    \cup {MergedRecord(StrGL, cs) : cs \in {<<ProgA>>, <<ProgC>>}}

InitRead ==
    /\ rPc = "loop"
    /\ rArgs \in [filterByChromosome : BOOLEAN, skipcallers : {None, PyList(<<ProgA>>)}]
    /\ rRead = <<>>
    /\ callerIdx = 0
    /\ callIdx = 0
    /\ callsets = <<>>
    /\ callIdxToCall = <<>>
    /\ callerIdxDict = <<>>
    /\ InfoIdle /\ BkptIdle /\ MergeIdle

NextRead ==
    \/ \E rec \in MergedRecords : RReadRecord(rec)
    \/ RReturn

SpecRead == InitRead /\ [][NextRead]_vars

\* ----------------------------------------------------------------- variantmap
\* variantdict.variantmap, which merge feeds and iterates: clusters in
\* insertion order.  A record is an SV record when forceSV is set or it has
\* an SVTYPE; its mate is known when it has CHR2.
isSV(record) == "SVTYPE" \in DOMAIN record.info

breakpoints(record) ==
    LET right1 == record.orient[1]
        right2 == record.orient[2]
        loc1 == Location(PyStr(record.chrom), PyInt(record.pos), TRUE, right1)
        loc2 == IF "CHR2" \in DOMAIN record.info
                THEN Location(record.info["CHR2"],
                              IF "END" \in DOMAIN record.info THEN record.info["END"] ELSE None,
                              right1 # right2, right2)
                ELSE Location(None, None, right1 # right2, right2)
    IN  <<loc1, loc2>>

withPos(loc, pos) == [loc EXCEPT !.pos = pos]

Abs(n) == IF n < 0 THEN 0 - n ELSE n

\* Same chromosome and orientation, and positions within the window.
Near(loc, anchor, window) ==
    /\ loc.chrom = anchor.chrom
    /\ loc.right = anchor.right
    /\ loc.strand = anchor.strand
    /\ loc.pos.t = anchor.pos.t
    /\ loc.pos.t = "int" => Abs(loc.pos.v - anchor.pos.v) <= window

alleleOf(record) ==
    IF record.alts = <<>> THEN None
    ELSE [t |-> "allele", ref |-> record.ref, alt |-> record.alts[1]]

First(S) == CHOOSE k \in S : \A j \in S : k <= j

addrecord(cd, record, caller, forceSV, awindow, svwindow) ==
    IF isSV(record) \/ forceSV
    THEN LET bp == breakpoints(record)
             hits == {k \in 1..Len(cd) :
                         /\ cd[k].kind = "sv"
                         /\ Near(bp[1], cd[k].loc1, svwindow)
                         /\ Near(bp[2], cd[k].loc2, svwindow)}
         IN  IF hits = {}
             THEN Append(cd, [kind |-> "sv", loc1 |-> bp[1], loc2 |-> bp[2],
                              callers |-> <<caller>>,
                              pos1s |-> <<bp[1].pos>>, pos2s |-> <<bp[2].pos>>,
                              recordscalled |-> <<<<caller, record>>>>])
             ELSE [cd EXCEPT ![First(hits)] =
                      [@ EXCEPT !.callers = Append(@, caller),
                                !.pos1s = Append(@, bp[1].pos),
                                !.pos2s = Append(@, bp[2].pos),
                                !.recordscalled = Append(@, <<caller, record>>)]]
    ELSE LET loc == Location(PyStr(record.chrom), PyInt(record.pos), TRUE, FALSE)
             hits == {k \in 1..Len(cd) :
                         /\ cd[k].kind = "snv"
                         /\ Near(loc, cd[k].loc, awindow)
                         /\ cd[k].allele = alleleOf(record)}
         IN  IF hits = {}
             THEN Append(cd, [kind |-> "snv", loc |-> loc, allele |-> alleleOf(record),
                              callers |-> <<caller>>,
                              recordscalled |-> <<<<caller, record>>>>])
             ELSE [cd EXCEPT ![First(hits)] =
                      [@ EXCEPT !.callers = Append(@, caller),
                                !.recordscalled = Append(@, <<caller, record>>)]]

\* The median of the positions seen on one side; None for an unknown mate.
medianPos(ps) ==
    IF \E i \in 1..Len(ps) : ps[i].t # "int" THEN None
    ELSE SortSeq(ps, PyLess)[(Len(ps) \div 2) + 1]

\* The tuple iteration yields for a cluster.
variantOf(c) ==
    IF c.kind = "snv" THEN <<c.loc, c.allele, c.callers>>
    ELSE <<c.loc1, c.loc2, c.callers, medianPos(c.pos1s), medianPos(c.pos2s),
           c.recordscalled>>

\* Numbered chromosomes by number, then the other contigs by name.
ChromLess(c1, c2) ==
    IF IntParses(c1) /\ IntParses(c2) THEN ParseInt(c1) < ParseInt(c2)
    ELSE IF IntParses(c1) THEN TRUE
    ELSE IF IntParses(c2) THEN FALSE
    ELSE StrLess(c1, c2)

\* sorted(calldict): by chromosome, representative position, insertion order.
sortedVariants(cd) ==
    LET loc(k) == IF cd[k].kind = "snv" THEN cd[k].loc
                  ELSE withPos(cd[k].loc1, medianPos(cd[k].pos1s))
        before(i, j) ==
            IF loc(i).chrom # loc(j).chrom THEN ChromLess(loc(i).chrom.v, loc(j).chrom.v)
            ELSE IF loc(i).pos.v # loc(j).pos.v THEN loc(i).pos.v < loc(j).pos.v
            ELSE i < j
        order == SortSeq([k \in 1..Len(cd) |-> k], before)
    IN  [k \in 1..Len(cd) |-> variantOf(cd[order[k]])]

\* ---------------------------------------------------------------------- merge
ProgNames == <<ProgA, ProgB, ProgC>>

\* programs[i] of the i-th (infile, program) pair; the file is named i.
programOf(i) == ProgNames[i]

\* passed_variant, a closure of merge over noFilter.
passed_variant(record, noFilter) ==
    "PASS" \in Range(record.filter) \/ Len(record.filter) = 0 \/ noFilter

\* Bug variant of filterstring: a cluster needs more than min_num_callers.
filterstring_strict(num_callers, min_num_callers) ==
    IF num_callers > min_num_callers THEN "." ELSE "LOWSUPPORT"

\* passes = num_callers >= min_num_callers; "." if passes else "LOWSUPPORT"
filterstring(num_callers, min_num_callers) ==
    IF num_callers >= min_num_callers THEN "." ELSE "LOWSUPPORT"

\* What fetch() and addrecord can raise, and what line 132 catches.
Exceptions ==
    {"RuntimeError", "TypeError", "NameError", "AttributeError", "ValueError", "OSError"}

CaughtExceptions == {"RuntimeError", "TypeError", "NameError", "AttributeError"}

\* Bug variant of the except clause: the failed file's records are taken back.
RECURSIVE calldictRolledBack(_, _)
calldictRolledBack(cd, program) ==
    IF cd = <<>> THEN <<>>
    ELSE LET c == Head(cd)
             keep == SelectSeq(c.recordscalled, LAMBDA m : m[1] # program)
             rest == calldictRolledBack(Tail(cd), program)
         IN  IF keep = <<>> THEN rest
             ELSE <<[c EXCEPT !.recordscalled = keep,
                              !.callers = SelectSeq(c.callers, LAMBDA x : x # program)]>>
                  \o rest

\* The except clause passes (lines 135-136): calldict stays as it is.
calldictAfterExcept(cd, program) == cd

\* outvcf.header.add_meta(key="caller", items=[("ID", program), ("File", infile)])
addMeta(h, i) == [h EXCEPT !.callers = Append(@, [ID |-> programOf(i), File |-> i])]

\* The next (infile, program) pair is taken and VariantFile(infile) opens.
MOpenFile ==
    /\ mPc = "next"
    /\ fileIdx < MaxFiles
    /\ fileIdx' = fileIdx + 1
    /\ mPc' = "stream"
    /\ UNCHANGED <<mArgs, streamed, swallowed, calldict, header, todo, out, failure,
                   infoVars, bkptVars, readVars>>

\* One pass of the loop over vcf_reader.fetch() (lines 116-131).
MRecord(record) ==
    /\ mPc = "stream"
    /\ Len(streamed) < MaxRecords
    /\ LET passed == passed_variant(record, mArgs.noFilter)
           fed == passed /\ ~(mArgs.filterByChromosome /\ ~mapped_to_chromosome(record.chrom))
       IN  /\ streamed' = Append(streamed, [file |-> fileIdx, record |-> record,
                                            passed |-> passed, fed |-> fed])
           /\ calldict' = IF fed
                          THEN addrecord(calldict, record, programOf(fileIdx),
                                         mArgs.forceSV, 0, mArgs.slop)
                          ELSE calldict
    /\ UNCHANGED <<mArgs, mPc, fileIdx, swallowed, header, todo, out, failure,
                   infoVars, bkptVars, readVars>>

\* The stream of the file ends: the caller line is added (lines 138-144).
MEndOfFile ==
    /\ mPc = "stream"
    /\ mPc' = "next"
    /\ header' = addMeta(header, fileIdx)
    /\ UNCHANGED <<mArgs, fileIdx, streamed, swallowed, calldict, todo, out, failure,
                   infoVars, bkptVars, readVars>>

\* VariantFile(infile), fetch() or addrecord raises exc (lines 132-136):
\* passed over when it is caught and debug is off; raised again otherwise,
\* and then merge is left with nothing printed and its locals gone.
MRaise(exc) ==
    /\ \/ mPc = "next" /\ fileIdx < MaxFiles
       \/ mPc = "stream"
    /\ LET i == IF mPc = "next" THEN fileIdx + 1 ELSE fileIdx
       IN  IF exc \in CaughtExceptions /\ ~mArgs.debug
           THEN /\ mPc' = "next"
                /\ fileIdx' = i
                /\ swallowed' = swallowed \cup {i}
                /\ calldict' = calldictAfterExcept(calldict, programOf(i))
                /\ header' = addMeta(header, i)
                /\ UNCHANGED <<failure, streamed>>
           ELSE /\ mPc' = "raised"
                /\ failure' = [exc |-> exc, phase |-> "ingest", file |-> i]
                /\ fileIdx' = 0
                /\ streamed' = <<>>
                /\ swallowed' = {}
                /\ calldict' = <<>>
                /\ header' = Nothing
    /\ UNCHANGED <<mArgs, todo, out, infoVars, bkptVars, readVars>>

\* The pairs are used up: the INFO fields are declared and the header is
\* printed (lines 147-155); sorted(calldict) is taken.
MHeader ==
    /\ mPc = "next"
    /\ mPc' = "emit"
    /\ header' = [header EXCEPT !.info =
                     <<"Callers">>
                     \o (IF mArgs.output_ncallers THEN <<"NumCallers">> ELSE <<>>)
                     \o <<"SVTYPE", "SVLEN">>]
    /\ out' = <<[t |-> "header", header |-> header']>>
    /\ todo' = sortedVariants(calldict)
    /\ UNCHANGED <<mArgs, fileIdx, streamed, swallowed, calldict, failure,
                   infoVars, bkptVars, readVars>>

\* The loop body for an snv/indel variant (lines 158-178).
MEmitSnv ==
    /\ mPc = "emit"
    /\ todo # <<>>
    /\ Len(Head(todo)) = 3
    /\ LET variant == Head(todo)
           loc == variant[1]
           allele == variant[2]
           callers == variant[3]
           num_callers == Cardinality(Range(callers))
       IN  IF allele = None
           THEN out' = out
           ELSE out' = Append(out,
                    [t |-> "record", contig |-> loc.chrom.v, start |-> loc.pos.v,
                     ref |-> allele.ref, alts |-> <<allele.alt>>,
                     filter |-> filterstring(num_callers, mArgs.min_num_callers),
                     info |-> IF mArgs.output_ncallers
                              THEN ("Callers" :> PyStr(Join(callers)))
                                   @@ ("NumCallers" :> PyStr(IntToStr(num_callers)))
                              ELSE ("Callers" :> PyStr(Join(callers))),
                     variant |-> variant])
    /\ todo' = Tail(todo)
    /\ UNCHANGED <<mArgs, mPc, fileIdx, streamed, swallowed, calldict, header, failure,
                   infoVars, bkptVars, readVars>>

\* "#" + str(rec) + " (" + caller + ")" for every member, when debug is on.
debugLines(recordscalled) ==
    [k \in 1..Len(recordscalled) |->
        [t |-> "comment", caller |-> recordscalled[k][1], rec |-> recordscalled[k][2]]]

\* The loop body for an SV variant (lines 158-161 and 180-201).  Nothing
\* here is inside a try: an exception leaves merge.
MEmitSv ==
    /\ mPc = "emit"
    /\ todo # <<>>
    /\ Len(Head(todo)) = 6
    /\ LET variant == Head(todo)
           loc1 == variant[1]
           loc2 == variant[2]
           callers == variant[3]
           medianPos1 == variant[4]
           medianPos2 == variant[5]
           recordscalled == variant[6]
           num_callers == Cardinality(Range(callers))
           records == [k \in 1..Len(recordscalled) |-> recordscalled[k][2]]
           avgloc1 == withPos(loc1, medianPos1)
           avgloc2 == withPos(loc2, medianPos2)
           refalt == bkptRefAltFromPair(avgloc1, avgloc2)
           infodict == make_info_dict(records, medianPos1, medianPos2)
           raise(exc) == /\ mPc' = "raised"
                         /\ failure' = [exc |-> exc, phase |-> "emit", variant |-> variant]
                         /\ UNCHANGED <<todo, out>>
       IN  IF mArgs.filterByChromosome /\ loc2.chrom = None
           THEN raise("TypeError")     \* mapped_to_chromosome(None): None[0:2]
           ELSE IF mArgs.filterByChromosome /\ ~mapped_to_chromosome(loc2.chrom.v)
           THEN todo' = Tail(todo) /\ UNCHANGED <<mPc, out, failure>>
           ELSE IF Raised(refalt) THEN raise(refalt.err)
           ELSE IF Raised(infodict) THEN raise(infodict.err)
           ELSE /\ \E info \in infoString(callers, infodict.info, mArgs.output_ncallers) :
                       out' = Append(out,
                                  [t |-> "record", contig |-> avgloc1.chrom.v,
                                   start |-> avgloc1.pos.v,
                                   ref |-> refalt.ref, alts |-> <<refalt.alt>>,
                                   filter |-> filterstring(num_callers, mArgs.min_num_callers),
                                   info |-> info, variant |-> variant])
                              \o (IF mArgs.debug THEN debugLines(recordscalled) ELSE <<>>)
                /\ todo' = Tail(todo)
                /\ UNCHANGED <<mPc, failure>>
    /\ UNCHANGED <<mArgs, fileIdx, streamed, swallowed, calldict, header,
                   infoVars, bkptVars, readVars>>

\* outvcf.close() (line 203)
MClose ==
    /\ mPc = "emit"
    /\ todo = <<>>
    /\ mPc' = "done"
    /\ UNCHANGED <<mArgs, fileIdx, streamed, swallowed, calldict, header, todo, out,
                   failure, infoVars, bkptVars, readVars>>

\* ------------------------------------------------------------ inputs of merge
\* slop is left at its default of 0; verbose only prints and is left out.
Contigs == {Str1, StrGL, <<"M", "T">>, <<"h", "s", "3">>, <<"N", "C", "_">>}

InputRecord(chrom, pos, filter, alts, info, orient) ==
    [chrom |-> chrom, pos |-> pos, filter |-> filter, ref |-> <<"A">>, alts |-> alts,
     info |-> info, orient |-> orient]

Snv(chrom, filter, alts) ==
    InputRecord(chrom, 5, filter, alts, NoInfo, <<FALSE, TRUE>>)

SnvRecords ==
    {Snv(c, <<"PASS">>, <<<<"T">>>>) : c \in Contigs}
    \cup {Snv(Str1, f, <<<<"T">>>>) : f \in {<<>>, <<"q10">>}}
    \cup {Snv(Str1, <<"PASS">>, <<>>)}

Sv(pos, info, orient) ==
    InputRecord(Str1, pos, <<"PASS">>, <<<<"<", "S", "V", ">">>>>, info, orient)

MateAt(chrom) == ("CHR2" :> PyStr(chrom)) @@ ("END" :> PyInt(20))

SvRecords ==
    {Sv(10, ("SVTYPE" :> PyStr(StrDEL)) @@ ("SVLEN" :> PyInt(0)) @@ MateAt(Str1), <<FALSE, TRUE>>),
     Sv(10, ("SVTYPE" :> PyStr(StrBND)), <<FALSE, TRUE>>),
     Sv(10, ("SVTYPE" :> PyStr(StrBND)) @@ MateAt(StrGL), <<TRUE, FALSE>>)}

RecordPool == SnvRecords \cup SvRecords

MinCallers == {0, 2, 3}

Init ==
    /\ mArgs \in [slop : {0}, output_ncallers : BOOLEAN, min_num_callers : MinCallers,
                  filterByChromosome : BOOLEAN, noFilter : BOOLEAN, debug : BOOLEAN,
                  forceSV : BOOLEAN]
    /\ mPc = "next"
    /\ fileIdx = 0
    /\ streamed = <<>>
    /\ swallowed = {}
    /\ calldict = <<>>
    /\ header = [filters |-> IF mArgs.min_num_callers > 0 THEN {"LOWSUPPORT"} ELSE {},
                 callers |-> <<>>, info |-> <<>>]
    /\ todo = <<>>
    /\ out = <<>>
    /\ failure = Nothing
    /\ InfoIdle /\ BkptIdle /\ ReadIdle

Next ==
    \/ MOpenFile
    \/ \E record \in RecordPool : MRecord(record)
    \/ MEndOfFile
    \/ \E exc \in Exceptions : MRaise(exc)
    \/ MHeader
    \/ MEmitSnv
    \/ MEmitSv
    \/ MClose

Spec == Init /\ [][Next]_vars

\* ================================================================== claims
\* Medians stated by counting, not by sorting: m is the lower (upper) median
\* of a list when it is the lower (upper) of its two middle elements, and the
\* middle element when the length is odd.
NumLess(a, m) == Cardinality({i \in 1..Len(a) : PyLess(a[i], m)})

NumLeq(a, m) == Cardinality({i \in 1..Len(a) : ~PyLess(m, a[i])})

LowerMedianOf(a, m) ==
    m \in Range(a) /\ 2 * NumLess(a, m) < Len(a) /\ 2 * NumLeq(a, m) >= Len(a)

UpperMedianOf(a, m) ==
    m \in Range(a) /\ 2 * NumLess(a, m) <= Len(a) /\ 2 * NumLeq(a, m) > Len(a)

InfoDone == iPc = "done" /\ iOut.err = "none"

\* C5 as stated: make_info_dict takes, for each of CHR2, END, SVTYPE and
\* SVLEN, the lower median of the sorted non-missing values, so that the
\* values [10, 20] give 10 (a median that is not 0 is what the dictionary
\* holds for the field).
C5_LowerMedian ==
    InfoDone =>
        \A f \in FieldSet :
            LET a == answersOf(iRecords, f)
            IN  \A m \in Range(a) :
                    LowerMedianOf(a, m) /\ m # PyInt(0) =>
                        f \in DOMAIN iOut.infodict /\ iOut.infodict[f] = m

\* C5 amended: make_info_dict takes, for each of CHR2, END, SVTYPE and SVLEN,
\* the element at index floor(n/2) of the sorted non-missing values: the
\* middle element for an odd count and the upper of the two middle elements
\* for an even count, never an average, so that [10, 20] gives 20.  The
\* dictionary holds that element for the field unless it is 0.
C5_UpperMedian ==
    InfoDone =>
        \A f \in FieldSet :
            LET a == answersOf(iRecords, f)
            IN  /\ a # <<>> => \E m \in Range(a) : UpperMedianOf(a, m)
                /\ \A m \in Range(a) :
                       UpperMedianOf(a, m) /\ m # PyInt(0) =>
                           f \in DOMAIN iOut.infodict /\ iOut.infodict[f] = m

\* C5 witness: the END values [10, 20] of two members give 20.
C5_Witness ==
    /\ InfoDone
    /\ answersOf(iRecords, "END") = <<PyInt(10), PyInt(20)>>
    /\ "END" \in DOMAIN iOut.infodict
    /\ iOut.infodict["END"] = PyInt(20)

SvlenMedianZero ==
    LET a == answersOf(iRecords, "SVLEN")
    IN  LowerMedianOf(a, PyInt(0)) \/ UpperMedianOf(a, PyInt(0))

\* C6 as stated: whatever the SVTYPE and the representative positions of an
\* SV cluster, when the median of the SVLEN values of its members is 0 the
\* INFO of the consensus record has no SVLEN field.
C6_NoSvlenWhenZero ==
    InfoDone /\ SvlenMedianZero => "SVLEN" \notin DOMAIN iOut.info

SvtypeSynth ==
    LET a == answersOf(iRecords, "SVTYPE")
    IN  \E m \in Range(a) : UpperMedianOf(a, m) /\ m \in SynthTypes

\* C6 amended: when the median make_info_dict computes for SVLEN (the
\* element at index floor(n/2) of the sorted values) is 0, the INFO of the
\* consensus record has no SVLEN field unless the median SVTYPE is one of
\* DUP, DUP:TANDEM, DEL and INV; then SVLEN is emitted as the decimal string
\* of medianPos2 - medianPos1.
C6_ZeroSvlenAbsentOrSynthesized ==
    InfoDone /\ UpperMedianOf(answersOf(iRecords, "SVLEN"), PyInt(0)) =>
        IF SvtypeSynth
        THEN /\ "SVLEN" \in DOMAIN iOut.info
             /\ iOut.info["SVLEN"].t = "str"
             /\ IntParses(iOut.info["SVLEN"].v)
             /\ ParseInt(iOut.info["SVLEN"].v) = iArgs.pos2 - iArgs.pos1
        ELSE "SVLEN" \notin DOMAIN iOut.info

\* C6 witness: a median SVLEN of 0 in a cluster that is not of a synthesized
\* type, emitted without SVLEN.
C6_Witness ==
    /\ InfoDone
    /\ UpperMedianOf(answersOf(iRecords, "SVLEN"), PyInt(0))
    /\ answersOf(iRecords, "SVTYPE") # <<>>
    /\ ~SvtypeSynth
    /\ "SVLEN" \notin DOMAIN iOut.info

KnownMate(loc2) == loc2.t # "None" /\ loc2.chrom.t # "None"

Oriented(loc1, loc2) == loc2.strand = (loc1.right # loc2.right)

\* The mate descriptor <b><chrom>:<pos><b>, read back from its characters.
IsDescriptor(d, loc2) ==
    LET b == IF loc2.right THEN "[" ELSE "]"
        n == Len(loc2.chrom.v)
    IN  /\ Len(d) >= n + 4
        /\ d[1] = b
        /\ d[Len(d)] = b
        /\ SubSeq(d, 2, n + 1) = loc2.chrom.v
        /\ d[n + 2] = ":"
        /\ IntParses(SubSeq(d, n + 3, Len(d) - 1))
        /\ ParseInt(SubSeq(d, n + 3, Len(d) - 1)) = loc2.pos.v

\* C9: for a known mate with loc2.strand = (loc1.isRightEnd # loc2.isRightEnd)
\* bkptRefAltFromPair returns ref N and an ALT made of the descriptor
\* <b><chrom2>:<pos2><b>, b being [ when loc2 is a right end and ] otherwise,
\* after the ref when loc1 is not a right end and before it when it is; when
\* the orientation condition is violated for a known mate it fails with an
\* assertion and returns no ALT.
C9_BkptNotation ==
    bArgs # Nothing =>
        LET loc1 == bArgs[1]
            loc2 == bArgs[2]
        IN  KnownMate(loc2) =>
                IF Oriented(loc1, loc2)
                THEN /\ bOut.err = "none"
                     /\ bOut.ref = <<"N">>
                     /\ Len(bOut.alt) >= 2
                     /\ IF loc1.right
                        THEN /\ bOut.alt[Len(bOut.alt)] = "N"
                             /\ IsDescriptor(SubSeq(bOut.alt, 1, Len(bOut.alt) - 1), loc2)
                        ELSE /\ bOut.alt[1] = "N"
                             /\ IsDescriptor(Tail(bOut.alt), loc2)
                ELSE bOut = Raise("AssertionError")

\* C9 witness: a known, consistently oriented right-end mate at a two-digit
\* position, with loc1 a left end: N[X:12[.
C9_Witness ==
    /\ bArgs # Nothing
    /\ KnownMate(bArgs[2])
    /\ Oriented(bArgs[1], bArgs[2])
    /\ ~bArgs[1].right
    /\ bArgs[2].right
    /\ bOut.err = "none"
    /\ bOut.alt = <<"N", "[", "X", ":", "1", "2", "[">>

\* "a,b".split(","): the names a comma-joined value lists.
RECURSIVE Split(_)
Split(s) ==
    IF \A i \in 1..Len(s) : s[i] # ","
    THEN <<s>>
    ELSE LET k == CHOOSE i \in 1..Len(s) : s[i] = "," /\ \A j \in 1..(i - 1) : s[j] # ","
         IN  <<SubSeq(s, 1, k - 1)>> \o Split(SubSeq(s, k + 1, Len(s)))

Count(s, x) == Cardinality({i \in 1..Len(s) : s[i] = x})

\* The callers a record read so far keeps: none when the chromosome filter
\* drops it, else those that are not skipped.
KeptCallers(rec) ==
    IF rArgs.filterByChromosome
       /\ (Prefix(rec.chrom, 1) = <<"M">>
           \/ Prefix(rec.chrom, 2) \in {<<"G", "L">>, <<"h", "s">>, <<"N", "C">>})
    THEN {}
    ELSE {c \in Range(rec.info["Callers"]) :
            rArgs.skipcallers = None \/ c \notin Range(rArgs.skipcallers.v)}

\* The index in rRead of the first record that keeps caller c.
FirstRecordOf(c) ==
    CHOOSE i \in 1..Len(rRead) :
        c \in KeptCallers(rRead[i]) /\ \A j \in 1..(i - 1) : c \notin KeptCallers(rRead[j])

\* Whether c comes before d where both are first listed.
FirstBefore(c, d) ==
    LET i == FirstRecordOf(c)
        j == FirstRecordOf(d)
        cs == rRead[i].info["Callers"]
        at(x) == CHOOSE k \in 1..Len(cs) : cs[k] = x /\ \A l \in 1..(k - 1) : cs[l] # x
    IN  i < j \/ (i = j /\ at(c) < at(d))

\* C10: after readMergedCalls has read any sequence of merged records its
\* three results are consistent: the caller indices are exactly 0..n-1 in
\* order of first appearance and callsets has one list per caller; the call
\* indices are exactly 0..m-1 and count only the records that keep at least
\* one caller after the chromosome filter and skipcallers; and for every
\* caller c and call index i, i is in callsets[callerIdxDict[c]], exactly
\* once, if and only if c is one of the callers in the summary
\* callIdxToCall[i], whose first field is the number of distinct callers
\* listed.
C10_ReadBackConsistent ==
    rPc \in {"loop", "returned"} =>
        LET names == DOMAIN callerIdxDict
            n == Cardinality(names)
            m == Cardinality({i \in 1..Len(rRead) : KeptCallers(rRead[i]) # {}})
        IN  /\ names = UNION {KeptCallers(rRead[i]) : i \in 1..Len(rRead)}
            /\ {callerIdxDict[c] : c \in names} = 0..(n - 1)
            /\ \A c, d \in names : callerIdxDict[c] < callerIdxDict[d] <=> FirstBefore(c, d)
            /\ Len(callsets) = n
            /\ callerIdx = n
            /\ Len(callIdxToCall) = m
            /\ callIdx = m
            /\ \A c \in names :
                   /\ Range(callsets[callerIdxDict[c] + 1]) \subseteq 0..(m - 1)
                   /\ \A i \in 0..(m - 1) :
                          Count(callsets[callerIdxDict[c] + 1], i) =
                              IF c \in Range(Split(callIdxToCall[i + 1][6])) THEN 1 ELSE 0
            /\ \A i \in 1..m :
                   /\ callIdxToCall[i][1] = Cardinality(Range(Split(callIdxToCall[i][6])))
                   /\ callIdxToCall[i][1] = Len(Split(callIdxToCall[i][6]))
                   /\ Range(Split(callIdxToCall[i][6])) \subseteq names

\* C10 witness: three records read and returned, one dropped by the
\* chromosome filter, a skipped caller, and two callers indexed 0 and 1 in
\* the order they were first listed.
C10_Witness ==
    /\ rPc = "returned"
    /\ Len(rRead) = 3
    /\ rArgs.filterByChromosome
    /\ rArgs.skipcallers # None
    /\ \E i \in 1..3 : rRead[i].chrom = StrGL
    /\ \E i \in 1..3 : rRead[i].chrom = Str1 /\ rRead[i].info["Callers"] = <<ProgC, ProgB>>
    /\ \E i \in 1..3 : rRead[i].info["Callers"] = <<ProgA, ProgB>>
    /\ Len(callIdxToCall) = 2
    /\ callerIdxDict = (ProgC :> 0) @@ (ProgB :> 1)
    /\ callsets = <<<<0>>, <<0, 1>>>>

\* The consensus records printed so far.
Emitted == {out[i] : i \in {j \in 1..Len(out) : out[j].t = "record"}}

\* The caller names of the cluster a consensus record was made from.
ClusterCallers(o) == Range(o.variant[3])

\* The names the Callers value of a consensus record lists.
ListedCallers(o) == Split(o.info["Callers"].v)

\* C1: every consensus record merge emits, for an SNV/indel or an SV
\* cluster, has filter LOWSUPPORT when the number of distinct caller names of
\* the cluster is strictly less than min_num_callers and "." otherwise; a
\* cluster with 2 distinct callers is LOWSUPPORT with min_num_callers = 3 and
\* passes with min_num_callers = 2.
C1_LowSupport ==
    \A o \in Emitted :
        LET n == Cardinality(ClusterCallers(o))
        IN  /\ n < mArgs.min_num_callers => o.filter = "LOWSUPPORT"
            /\ n >= mArgs.min_num_callers => o.filter = "."
            /\ n = 2 /\ mArgs.min_num_callers = 3 => o.filter = "LOWSUPPORT"
            /\ n = 2 /\ mArgs.min_num_callers = 2 => o.filter = "."

\* C1 witness: a cluster of two distinct callers emitted under
\* min_num_callers = 3.
C1_Witness ==
    \E o \in Emitted :
        /\ Cardinality(ClusterCallers(o)) = 2
        /\ mArgs.min_num_callers = 3
        /\ o.filter = "LOWSUPPORT"

NumCallersOf(o) ==
    IF o.info["NumCallers"].t = "int" THEN o.info["NumCallers"].v
    ELSE ParseInt(o.info["NumCallers"].v)

\* C2: in every consensus record merge emits, for SNV/indel clusters as well
\* as SV clusters, a caller whose records joined the same cluster appears
\* exactly once in the Callers value and adds exactly 1 to NumCallers.
C2_CallerListedOnce ==
    \A o \in Emitted :
        /\ \A c \in ClusterCallers(o) : Count(ListedCallers(o), c) = 1
        /\ mArgs.output_ncallers => NumCallersOf(o) = Cardinality(ClusterCallers(o))

\* C3: with debug off any failure raised while a file is opened or streamed
\* is recovered at the file level, so that no such failure leaves merge;
\* with debug on no failure is passed over.
C3_FileFailureRecovered ==
    /\ ~mArgs.debug => ~(mPc = "raised" /\ failure.phase = "ingest")
    /\ mArgs.debug => swallowed = {}

\* C4 as stated: the contribution of a file that failed part-way is dropped:
\* no consensus record emitted afterwards names its caller.
C4_FailedFileDropped ==
    \A o \in Emitted : \A f \in swallowed : programOf(f) \notin ClusterCallers(o)

\* C4 amended: when a file fails part-way through its stream (debug off, an
\* exception the except clause catches) only the rest of its stream is
\* skipped: every record of the file fed to addrecord before the failure
\* stays a member of its cluster, and the consensus record emitted for a
\* cluster lists the caller name of every member.
C4_FailedFileKept ==
    /\ \A i \in 1..Len(streamed) :
           streamed[i].file \in swallowed /\ streamed[i].fed =>
               \E k \in 1..Len(calldict) :
                   /\ <<programOf(streamed[i].file), streamed[i].record>>
                          \in Range(calldict[k].recordscalled)
                   /\ programOf(streamed[i].file) \in Range(calldict[k].callers)
    /\ \A o \in Emitted :
           /\ \E k \in 1..Len(calldict) : o.variant = variantOf(calldict[k])
           /\ ClusterCallers(o) \subseteq Range(ListedCallers(o))

\* C4 witness: a consensus record that names the caller of a file whose
\* failure was passed over.
C4_Witness ==
    \E o \in Emitted : \E f \in swallowed :
        /\ programOf(f) \in ClusterCallers(o)
        /\ programOf(f) \in Range(ListedCallers(o))

BeginsWith(s, p) == Len(s) >= Len(p) /\ SubSeq(s, 1, Len(p)) = p

Unplaced(chrom) ==
    \E p \in {<<"G", "L">>, <<"M", "T">>, <<"h", "s">>, <<"N", "C">>, <<"M">>} :
        BeginsWith(chrom, p)

PassesFilter(record) ==
    mArgs.noFilter \/ record.filter = <<>> \/ \E i \in 1..Len(record.filter) : record.filter[i] = "PASS"

\* C7: a record that passes the FILTER check is fed to addrecord if and only
\* if filterByChromosome is off or its contig name does not begin with GL,
\* MT, hs, NC or M; a record on GL000220.1 is never fed when the filter is
\* on and always fed when it is off.
C7_ChromosomeFilter ==
    \A i \in 1..Len(streamed) :
        LET e == streamed[i]
        IN  PassesFilter(e.record) =>
                /\ e.fed <=> (~mArgs.filterByChromosome \/ ~Unplaced(e.record.chrom))
                /\ e.record.chrom = StrGL => (e.fed <=> ~mArgs.filterByChromosome)

\* C7 witness: with the filter on, a passing record on GL000220.1 is dropped
\* and a passing record on chromosome 1 is fed.
C7_Witness ==
    /\ mArgs.filterByChromosome
    /\ \E i \in 1..Len(streamed) :
           /\ streamed[i].record.chrom = StrGL
           /\ PassesFilter(streamed[i].record)
           /\ ~streamed[i].fed
    /\ \E i \in 1..Len(streamed) :
           /\ streamed[i].record.chrom = Str1
           /\ streamed[i].fed

\* C8: for every SV cluster whose mate is unknown, under every setting of
\* filterByChromosome, merge does not fail: it emits the consensus record
\* with the mate descriptor degraded to "." and goes on.
C8_UnknownMateDegraded ==
    /\ ~(/\ mPc = "raised"
         /\ failure.phase = "emit"
         /\ failure.variant[2].chrom = None)
    /\ \A o \in Emitted :
           Len(o.variant) = 6 /\ o.variant[2].chrom = None => o.alts = <<<<"N", ".">>>>

====
